---------------------------- MODULE Spec2Model ----------------------------
(***************************************************************************)
(* Model of the UCI option registry of Musketeer-Stockfish                 *)
(* (src/src/ucioption.cpp): the case-insensitive comparator, the Option    *)
(* constructors, Option::operator= (assign), Option::operator<< (declare), *)
(* Option::operator== (compare against a literal), init() and the          *)
(* operator<< that renders the whole map in the UCI or the xboard grammar. *)
(*                                                                         *)
(* std::string values are TLA+ strings, read character by character with   *)
(* Head/Tail/Len.  The map is a sequence of <key, option> pairs kept       *)
(* sorted by the comparator, as std::map keeps it.                         *)
(***************************************************************************)
EXTENDS Integers, Sequences, FiniteSets, TLC

VARIABLES
    Options,        \* the global UCI::OptionsMap: pairs [first, second], sorted by CaseInsensitiveLess
    insert_order,   \* the function-local static counter of Option::operator<<
    calls,          \* the on_change hooks invoked so far, in order
    out,            \* what the most recent operation wrote to its stream, one item per line
    fault,          \* "none", or how the process died: "assert", "invalid_argument", "out_of_range"
    pc,             \* "start" before init(), "session" after
    decls,          \* history: the names passed to a declare, in call order
    last,           \* history: the most recent operation and what it returned
    nAssign,        \* history: number of assign calls so far
    nDeclare        \* history: number of declare calls made one by one so far

vars == <<Options, insert_order, calls, out, fault, pc, decls, last, nAssign, nDeclare>>

(***************************************************************************)
(* Bounds of the model.                                                    *)
(***************************************************************************)
MaxAssigns == 2
MaxDeclares == 3

(***************************************************************************)
(* Characters.  The execution character set is ASCII.                      *)
(***************************************************************************)
\* The printable characters 32..95 and 97..126, in code order.  Two ASCII
\* characters have no spelling in a TLA+ string and are left out: 96, the
\* grave accent, and 11, the vertical tab.
PrintableLow == " !\"#$%&'()*+,-./0123456789:;<=>?@ABCDEFGHIJKLMNOPQRSTUVWXYZ[\\]^_"
PrintableHigh == "abcdefghijklmnopqrstuvwxyz{|}~"

CharAt(s, i) == SubSeq(s, i, i)

\* The characters of the model, as one-character strings.
Chars ==
    {"\t", "\n", "\f", "\r"}
        \cup {CharAt(PrintableLow, i) : i \in 1..Len(PrintableLow)}
        \cup {CharAt(PrintableHigh, i) : i \in 1..Len(PrintableHigh)}

\* The ASCII code of each character.
CodeTable ==
    [c \in Chars |->
        IF c = "\t" THEN 9
        ELSE IF c = "\n" THEN 10
        ELSE IF c = "\f" THEN 12
        ELSE IF c = "\r" THEN 13
        ELSE IF \E i \in 1..Len(PrintableLow) : CharAt(PrintableLow, i) = c
             THEN 31 + (CHOOSE i \in 1..Len(PrintableLow) : CharAt(PrintableLow, i) = c)
             ELSE 96 + (CHOOSE i \in 1..Len(PrintableHigh) : CharAt(PrintableHigh, i) = c)]

\* The ASCII code of a one-character string.
Code(c) == CodeTable[c]

\* The one-character string of an ASCII code.
Chr(n) ==
    IF n = 9 THEN "\t" ELSE IF n = 10 THEN "\n" ELSE IF n = 12 THEN "\f"
    ELSE IF n = 13 THEN "\r"
    ELSE IF n <= 95 THEN CharAt(PrintableLow, n - 31) ELSE CharAt(PrintableHigh, n - 96)

\* tolower() of <cctype> in the "C" locale, on a character's code.
tolower(n) == IF n >= 65 /\ n <= 90 THEN n + 32 ELSE n

\* isdigit(), isxdigit() and isspace() in the "C" locale.  isspace holds of
\* the space and of the codes 9..13: \t, \n, \v, \f, \r.
isdigit(c) == Code(c) \in 48..57

isxdigit(c) == tolower(Code(c)) \in (48..57) \cup (97..102)

isspace(c) == Code(c) \in {32} \cup (9..13)

RECURSIVE LowerStr(_)
\* s with every upper-case ASCII letter replaced by its lower-case letter.
LowerStr(s) == IF s = "" THEN "" ELSE Chr(tolower(Code(Head(s)))) \o LowerStr(Tail(s))

RECURSIVE LexicographicalCompare(_, _)
\* std::lexicographical_compare with comp(c1, c2) = tolower(c1) < tolower(c2).
LexicographicalCompare(s1, s2) ==
    IF s2 = "" THEN FALSE
    ELSE IF s1 = "" THEN TRUE
    ELSE LET c1 == tolower(Code(Head(s1)))
             c2 == tolower(Code(Head(s2)))
         IN  IF c1 < c2 THEN TRUE
             ELSE IF c2 < c1 THEN FALSE
             ELSE LexicographicalCompare(Tail(s1), Tail(s2))

RECURSIVE CaseInsensitiveLess_Exact(_, _)
\* A comparator that forgets tolower: the plain order of the characters.
CaseInsensitiveLess_Exact(s1, s2) ==
    IF s2 = "" THEN FALSE
    ELSE IF s1 = "" THEN TRUE
    ELSE IF Code(Head(s1)) < Code(Head(s2)) THEN TRUE
    ELSE IF Code(Head(s2)) < Code(Head(s1)) THEN FALSE
    ELSE CaseInsensitiveLess_Exact(Tail(s1), Tail(s2))

\* CaseInsensitiveLess::operator()
CaseInsensitiveLess(s1, s2) == LexicographicalCompare(s1, s2)

(***************************************************************************)
(* Integers as text.                                                       *)
(***************************************************************************)
\* INT_MIN and INT_MAX of a 32-bit int.
IntMax == 2147483647
IntMin == (0 - IntMax) - 1

\* The powers of two an int holds.
Pow2 == [k \in 0..30 |-> 2^k]

RECURSIVE Digits(_)
\* The decimal digits of a natural number, most significant first.
Digits(n) == IF n < 10 THEN Chr(48 + n) ELSE Digits(n \div 10) \o Chr(48 + (n % 10))

\* operator<<(std::ostream&, int): decimal, with a minus sign when negative.
StreamInt(n) ==
    IF n = IntMin THEN "-2147483648"
    ELSE IF n < 0 THEN "-" \o Digits(0 - n) ELSE Digits(n)

\* std::to_string(double) is printf("%f"): six digits after the point.  Every
\* default the program passes is an integer, so the fraction is all zeros.
to_string(v) == StreamInt(v) \o ".000000"

(***************************************************************************)
(* Natural numbers of any length, for the arithmetic of strtof: a number   *)
(* is the sequence of its decimal digits, most significant first, with no  *)
(* leading zero; zero is the empty sequence.                               *)
(***************************************************************************)
\* A sequence given by a rule, computed once.
Strict(f) == SubSeq(f, 1, Len(f))

Zeros(k) == Strict([i \in 1..k |-> 0])

\* a without its leading zeros.
BigStrip(a) ==
    LET first == CHOOSE i \in 1..(Len(a) + 1) :
                    (i > Len(a) \/ a[i] # 0) /\ \A j \in 1..(i - 1) : a[j] = 0
    IN  SubSeq(a, first, Len(a))

\* a < b: the shorter number, or the one with the lesser digit where they
\* first differ.
BigLess(a, b) ==
    IF Len(a) # Len(b) THEN Len(a) < Len(b)
    ELSE \E i \in 1..Len(a) : a[i] < b[i] /\ \A j \in 1..(i - 1) : a[j] = b[j]

\* 2 * a: a digit takes a carry exactly when the digit after it is 5 or more.
BigDouble(a) ==
    LET carry(i) == IF i < Len(a) /\ a[i + 1] >= 5 THEN 1 ELSE 0
        body == Strict([i \in 1..Len(a) |-> (2 * a[i] + carry(i)) % 10])
    IN  IF a # <<>> /\ a[1] >= 5 THEN <<1>> \o body ELSE body

\* a - b, for a >= b.  With b right-aligned under a, a digit lends to the
\* one after it exactly when, from there on, the digits of a equal those of
\* b up to one that is less.
BigSub(a, b) ==
    LET sub(i) == IF i > Len(a) - Len(b) THEN b[i - (Len(a) - Len(b))] ELSE 0
        lends(i) == \E j \in (i + 1)..Len(a) :
                        a[j] < sub(j) /\ \A k \in (i + 1)..(j - 1) : a[k] = sub(k)
    IN  BigStrip(Strict([i \in 1..Len(a) |->
                    (10 + a[i] - sub(i) - (IF lends(i) THEN 1 ELSE 0)) % 10]))

RECURSIVE SmallValue(_, _)
\* The value of a number short enough for an int, acc being the value of the
\* digits before position 1.
SmallValue(a, acc) == IF a = <<>> THEN acc ELSE SmallValue(Tail(a), 10 * acc + a[1])

(***************************************************************************)
(* float: the IEEE 754 binary32 values.  A finite value is m * 2^e with m  *)
(* below 2^24, written in one way only: e = 0 for a whole number below     *)
(* 2^24, e > 0 with m at least 2^23 for a larger one, e < 0 with m odd for *)
(* one with a fraction.  stof also ends in the two exceptions it throws.   *)
(***************************************************************************)
FloatNum(neg, m, e) == [kind |-> "num", neg |-> neg, m |-> m, e |-> e]
FloatInf(neg) == [kind |-> "inf", neg |-> neg, m |-> 0, e |-> 0]
FloatNaN == [kind |-> "nan", neg |-> FALSE, m |-> 0, e |-> 0]
\* std::invalid_argument: no conversion could be performed.
NoConversion == [kind |-> "invalid_argument", neg |-> FALSE, m |-> 0, e |-> 0]
\* std::out_of_range: strtof set errno to ERANGE.
OutOfRange == [kind |-> "out_of_range", neg |-> FALSE, m |-> 0, e |-> 0]

\* The one spelling of m * 2^e, for m up to 2^24.
Canon(neg, m, e) ==
    LET m1 == IF m = Pow2[24] THEN Pow2[23] ELSE m
        e1 == IF m = Pow2[24] THEN e + 1 ELSE e
        \* the places m1 can move up before it reaches 2^23
        up == CHOOSE k \in 0..23 : m1 * Pow2[k] < Pow2[24] /\ m1 * Pow2[k] >= Pow2[23]
        \* the zero bits m1 ends with
        down == CHOOSE k \in 0..23 : m1 % Pow2[k] = 0 /\ m1 % Pow2[k + 1] # 0
        u == IF up < e1 THEN up ELSE e1
        d == IF down < 0 - e1 THEN down ELSE 0 - e1
    IN  IF m = 0 THEN FloatNum(neg, 0, 0)
        ELSE IF e1 > 0 THEN FloatNum(neg, m1 * Pow2[u], e1 - u)
        ELSE IF e1 < 0 THEN FloatNum(neg, m1 \div Pow2[d], e1 + d)
        ELSE FloatNum(neg, m1, 0)

\* m25 rounded to its first p bits, to nearest and to even on a tie; m25 has
\* 25 bits, the first of them 1, and sticky tells that the exact value has
\* further bits set after them.
RoundTo(m25, sticky, p) ==
    LET drop == 25 - p
        kept == m25 \div Pow2[drop]
        rest == m25 % Pow2[drop]
        half == Pow2[drop - 1]
        up   == rest > half \/ (rest = half /\ (sticky \/ kept % 2 = 1))
    IN  [m |-> kept + (IF up THEN 1 ELSE 0), inexact |-> rest # 0 \/ sticky]

\* The float nearest to a value in [2^e2, 2^(e2+1)) whose first 25 bits are
\* m25.  Below 2^-126 the float keeps fewer bits.  errno is set to ERANGE on
\* overflow, and on a result that is tiny (below 2^-126 even once rounded to
\* 24 bits) and has lost a bit.  strtof looks for the lost bits among the
\* first 24 and among those after the 25th: the 25th bit itself is left out
\* of the test.
Rounded(neg, m25, sticky, e2) ==
    IF e2 > 127 \/ e2 < -150 THEN OutOfRange
    ELSE LET p    == IF e2 >= -126 THEN 24 ELSE e2 + 150
             r    == RoundTo(m25, sticky, p)
             tiny == e2 < -126 /\ ~(e2 = -127 /\ RoundTo(m25, sticky, 24).m = Pow2[24])
             lost == sticky \/ (m25 \div 2) % Pow2[24 - p] # 0
         IN  IF tiny /\ lost THEN OutOfRange
             ELSE IF e2 = 127 /\ r.m = Pow2[24] THEN OutOfRange
             ELSE Canon(neg, r.m, e2 - p + 1)

\* Whether d * 2^e2 <= n < 2 * d * 2^e2 has been reached: d <= n < 2 * d.
ScaleDone(s) == ~BigLess(s.n, s.d) /\ BigLess(s.n, BigDouble(s.d))

\* One step toward it: n doubled while below d, d doubled while n is twice
\* d or more; the value of n / d * 2^e2 stays.
ScaleStep(s) ==
    IF BigLess(s.n, s.d) THEN [n |-> BigDouble(s.n), d |-> s.d, e2 |-> s.e2 - 1]
    ELSE [n |-> s.n, d |-> BigDouble(s.d), e2 |-> s.e2 + 1]

RECURSIVE Scaled(_, _)
\* s after as many steps as it takes, k at most.
Scaled(s, k) ==
    IF k = 0 THEN s
    ELSE LET h == Scaled(s, k \div 2)
         IN  IF ScaleDone(h) THEN h ELSE Scaled(ScaleStep(h), k - (k \div 2) - 1)

\* The next bit of n / d, for n < 2 * d, after the bits m.
QuotientStep(s) ==
    IF BigLess(s.n, s.d) THEN [n |-> BigDouble(s.n), d |-> s.d, m |-> 2 * s.m]
    ELSE [n |-> BigDouble(BigSub(s.n, s.d)), d |-> s.d, m |-> 2 * s.m + 1]

RECURSIVE QuotientBits(_, _)
\* s after k bits.
QuotientBits(s, k) ==
    IF k = 0 THEN s
    ELSE LET h == QuotientBits(s, k \div 2)
         IN  IF h.m >= 0 THEN QuotientBits(QuotientStep(h), k - (k \div 2) - 1) ELSE h

\* The float of n / d * 2^e2, for d <= n < 2 * d: the first 25 bits of the
\* quotient, rounded; more tells that digits were left out of n.
Divided(neg, s, more) ==
    LET q == QuotientBits([n |-> s.n, d |-> s.d, m |-> 0], 25)
    IN  Rounded(neg, q.m, more \/ q.n # <<>>, s.e2)

\* strtof reads the digits of the first MaxFrac decimal places; of those
\* after them it only notes that the value has more.
MaxFrac == 151

\* The float of d * 10^x, d having no zero at either end.  A whole number
\* below 10^7 is a float as it stands; a value of 10^39 or more overflows and
\* one below 10^-46 is less than half the least float; any other is divided
\* out in binary, from its first MaxFrac decimal places.
Scientific(neg, d, x) ==
    IF d = <<>> THEN FloatNum(neg, 0, 0)
    ELSE IF x + Len(d) > 39 \/ x + Len(d) < -45 THEN OutOfRange
    ELSE IF x >= 0 /\ x + Len(d) <= 7 THEN FloatNum(neg, SmallValue(d, 0) * 10^x, 0)
    ELSE IF 0 - x > MaxFrac
    THEN Divided(neg, Scaled([n  |-> SubSeq(d, 1, Len(d) - ((0 - x) - MaxFrac)),
                              d  |-> <<1>> \o Zeros(MaxFrac),
                              e2 |-> 0], 160), TRUE)
    ELSE Divided(neg, Scaled([n  |-> IF x > 0 THEN d \o Zeros(x) ELSE d,
                              d  |-> IF x < 0 THEN <<1>> \o Zeros(0 - x) ELSE <<1>>,
                              e2 |-> 0], 160), FALSE)

\* The float of lead * 10^x, lead having no leading zero: its trailing zeros
\* go to the exponent.
Trimmed(neg, lead, x) ==
    LET tail == CHOOSE i \in 0..Len(lead) :
                    (i = 0 \/ lead[i] # 0) /\ \A j \in (i + 1)..Len(lead) : lead[j] = 0
    IN  Scientific(neg, SubSeq(lead, 1, tail), x + (Len(lead) - tail))

\* The float of digits * 10^x, digits being decimal digits.
FromDecimal(neg, digits, x) == Trimmed(neg, BigStrip(digits), x)

RECURSIVE BitsValue(_, _, _, _)
\* The value of the k bits of bits from position i on, after the bits m;
\* past the end the bits are 0.
BitsValue(bits, i, k, m) ==
    IF k = 0 THEN m
    ELSE BitsValue(bits, i + 1, k - 1, 2 * m + (IF i <= Len(bits) THEN bits[i] ELSE 0))

\* The value of a hexadecimal digit.
XDigitValue(c) == IF isdigit(c) THEN Code(c) - 48 ELSE tolower(Code(c)) - 87

\* The bits of a string of hexadecimal digits, four a digit.
HexBits(digits) ==
    Strict([i \in 1..(4 * Len(digits)) |->
              (XDigitValue(CharAt(digits, (i - 1) \div 4 + 1)) \div Pow2[3 - ((i - 1) % 4)]) % 2])

\* The float of bits * 2^x, bits being binary digits.
FromBits(neg, bits, x) ==
    LET first == CHOOSE i \in 1..(Len(bits) + 1) :
                    (i > Len(bits) \/ bits[i] = 1) /\ \A j \in 1..(i - 1) : bits[j] = 0
    IN  IF first > Len(bits) THEN FloatNum(neg, 0, 0)
        ELSE Rounded(neg, BitsValue(bits, first, 25, 0),
                     \E i \in (first + 25)..Len(bits) : bits[i] = 1,
                     x + (Len(bits) - first))

\* The float of digits * 2^x, digits being a string of hexadecimal digits.
FromHex(neg, digits, x) == FromBits(neg, HexBits(digits), x)

\* Whether a character is the digit 0.
iszero(c) == c = "0"

\* Whether a character is of a class: white space, decimal digit,
\* hexadecimal digit or the digit 0.
IsOf(class, c) ==
    CASE class = "space"  -> isspace(c)
      [] class = "digit"  -> isdigit(c)
      [] class = "xdigit" -> isxdigit(c)
      [] class = "zero"   -> iszero(c)

\* The length of the longest prefix of s whose characters are all of a class.
RunLength(s, class) ==
    (CHOOSE i \in 1..(Len(s) + 1) :
        /\ i > Len(s) \/ ~IsOf(class, CharAt(s, i))
        /\ \A j \in 1..(i - 1) : IsOf(class, CharAt(s, j))) - 1

\* strtof skips leading white space.
SkipSpace(s) == SubSeq(s, RunLength(s, "space") + 1, Len(s))

\* The longest prefix of s made of decimal digits.
DigitRun(s) == SubSeq(s, 1, RunLength(s, "digit"))

\* s without its first k characters.
Rest(s, k) == SubSeq(s, k + 1, Len(s))

\* Whether s begins with p, whatever the case of its letters; p is lower case.
FoldPrefix(s, p) ==
    /\ Len(s) >= Len(p)
    /\ \A i \in 1..Len(p) : tolower(Code(CharAt(s, i))) = Code(CharAt(p, i))

\* An exponent beyond this one is as good as any other: the value is 0 or it
\* overflows or underflows, for texts far shorter than this.
ExpCap == 100000

\* The values of the characters of a string of decimal digits.
DecimalDigits(s) == Strict([i \in 1..Len(s) |-> Code(CharAt(s, i)) - 48])

\* The value of decimal digits that begin with no zero, held at ExpCap: six
\* of them are ExpCap at least.
CappedValue(t) == IF Len(t) > 5 THEN ExpCap ELSE SmallValue(DecimalDigits(t), 0)

\* The value of the decimal digits of an exponent, held at ExpCap.
ExpValue(s) == CappedValue(Rest(s, RunLength(s, "zero")))

\* The exponent after its marker: an optional sign and the digits that
\* follow; 0 without a digit.
SignedExp(t) ==
    (IF t # "" /\ Head(t) = "-" THEN -1 ELSE 1)
        * ExpValue(DigitRun(IF t # "" /\ Head(t) \in {"+", "-"} THEN Tail(t) ELSE t))

\* The exponent r begins with: the marker ("e" or "p", in either case), an
\* optional sign and at least one digit; 0 when r does not begin so.
Exponent(r, marker) ==
    IF r # "" /\ LowerStr(Head(r)) = marker THEN SignedExp(Tail(r)) ELSE 0

\* The digits s begins with, hexadecimal or decimal.
NumberRun(s, hex) == SubSeq(s, 1, RunLength(s, IF hex THEN "xdigit" ELSE "digit"))

\* The mantissa of whole part ip and fraction frac, r being what follows the
\* point.
WithFraction(ip, frac, r) ==
    [digits |-> ip \o frac, frac |-> Len(frac), rest |-> Rest(r, Len(frac))]

\* The mantissa of whole part ip, r being what follows ip: a point and the
\* digits after it belong to it.
Fraction(ip, r, hex) ==
    IF r # "" /\ Head(r) = "." THEN WithFraction(ip, NumberRun(Tail(r), hex), Tail(r))
    ELSE [digits |-> ip, frac |-> 0, rest |-> r]

\* The digits u begins with, hexadecimal or decimal, with an optional point
\* among them, how many follow the point and what follows them.
Mantissa(u, hex) ==
    Fraction(NumberRun(u, hex), Rest(u, RunLength(u, IF hex THEN "xdigit" ELSE "digit")), hex)

\* A hexadecimal number: its exponent, after "p", counts bits.
HexFloat(neg, hex) == FromHex(neg, hex.digits, Exponent(hex.rest, "p") - 4 * hex.frac)

\* A decimal number: its exponent, after "e", counts digits.  Without a
\* digit no conversion is performed.
DecFloat(neg, dec) ==
    IF dec.digits # ""
    THEN FromDecimal(neg, DecimalDigits(dec.digits), Exponent(dec.rest, "e") - dec.frac)
    ELSE NoConversion

\* The number u begins with, hex being the hexadecimal mantissa after the
\* first two characters of u: "0x" with no hexadecimal digit after it is the
\* decimal number 0.
Number(neg, u, hex) ==
    IF FoldPrefix(u, "0x") /\ hex.digits # "" THEN HexFloat(neg, hex)
    ELSE DecFloat(neg, Mantissa(u, FALSE))

\* What follows the sign: "inf" or "infinity", "nan", or a number.
Unsigned(neg, u) ==
    IF FoldPrefix(u, "inf") THEN FloatInf(neg)
    ELSE IF FoldPrefix(u, "nan") THEN FloatNaN
    ELSE Number(neg, u, Mantissa(Rest(u, 2), TRUE))

\* What follows the white space: an optional sign.
Signed(t) ==
    Unsigned(t # "" /\ Head(t) = "-",
             IF t # "" /\ Head(t) \in {"+", "-"} THEN Tail(t) ELSE t)

\* std::stof(s), that is strtof and the two tests of its outcome: white
\* space, an optional sign, then "inf" or "infinity", "nan", a hexadecimal
\* number after "0x" or a decimal number; what follows is ignored.
stof(s) == Signed(SkipSpace(s))

\* float(n) for an int n: to the nearest float, to even on a tie.
IntToFloat(n) ==
    LET a   == IF n < 0 THEN 0 - n ELSE n
        len == CHOOSE k \in 25..31 : a \div Pow2[k - 1] = 1
        r   == RoundTo(a \div Pow2[len - 25], a % Pow2[len - 25] # 0, 24)
    IN  IF n = IntMin THEN FloatNum(TRUE, Pow2[23], 8)
        ELSE IF a < Pow2[24] THEN FloatNum(n < 0, a, 0)
        ELSE Canon(n < 0, r.m, len - 24)

\* Whether |f| < |g| (-1), |f| = |g| (0) or |f| > |g| (1), for a whole g.
MagCmp(f, g) ==
    LET whole == IF f.e < -23 THEN 0 ELSE f.m \div Pow2[0 - f.e]
    IN  IF f.e > 0 \/ g.e > 0
        THEN (IF f.e # g.e THEN (IF f.e < g.e THEN -1 ELSE 1)
              ELSE IF f.m < g.m THEN -1 ELSE IF f.m > g.m THEN 1 ELSE 0)
        ELSE IF f.e = 0 THEN (IF f.m < g.m THEN -1 ELSE IF f.m > g.m THEN 1 ELSE 0)
        ELSE IF whole < g.m THEN -1 ELSE 1

\* -1, 0 or 1 as a finite float is negative, zero or positive.
Sign(f) == IF f.m = 0 THEN 0 ELSE IF f.neg THEN -1 ELSE 1

\* f < g for floats f and g, g being finite and whole: a NaN is less than
\* nothing.
FloatLessThan(f, g) ==
    CASE f.kind = "nan" -> FALSE
      [] f.kind = "inf" -> f.neg
      [] OTHER -> IF Sign(f) # Sign(g) THEN Sign(f) < Sign(g)
                  ELSE IF Sign(f) = 1 THEN MagCmp(f, g) = -1
                  ELSE IF Sign(f) = -1 THEN MagCmp(f, g) = 1
                  ELSE FALSE

FloatGreaterThan(f, g) ==
    CASE f.kind = "nan" -> FALSE
      [] f.kind = "inf" -> ~f.neg
      [] OTHER -> IF Sign(f) # Sign(g) THEN Sign(f) > Sign(g)
                  ELSE IF Sign(f) = 1 THEN MagCmp(f, g) = 1
                  ELSE IF Sign(f) = -1 THEN MagCmp(f, g) = -1
                  ELSE FALSE

\* stof(v) < min and stof(v) > max: the int converts to float.
FloatLess(f, n) == FloatLessThan(f, IntToFloat(n))

FloatGreater(f, n) == FloatGreaterThan(f, IntToFloat(n))

\* What a conversion that int cannot hold gives is not defined; two builds:
\* the x86 instruction gives INT_MIN, the ARM one the nearest int and 0 for
\* a NaN.
Conversions == {"indefinite", "saturating"}

\* Whether int holds the whole part of f.
FitsInt(f) ==
    f.kind = "num" /\ (f.e <= 7 \/ (f.neg /\ f.e = 8 /\ f.m = Pow2[23]))

\* int(f): truncation toward zero; cv when int cannot hold the result.
FloatToInt(f, cv) ==
    LET a == IF f.e < -23 THEN 0
             ELSE IF f.e < 0 THEN f.m \div Pow2[0 - f.e]
             ELSE f.m * Pow2[f.e]
    IN  IF FitsInt(f) THEN (IF f.e = 8 THEN IntMin ELSE IF f.neg THEN 0 - a ELSE a)
        ELSE IF cv = "indefinite" THEN IntMin
        ELSE IF f.kind = "nan" THEN 0
        ELSE IF f.neg THEN IntMin ELSE IntMax

(***************************************************************************)
(* Option: constructors and accessors.                                     *)
(* An Option is a record of the class's data members; a temporary built by *)
(* a constructor has no idx yet (WithIdx gives it one).                    *)
(***************************************************************************)
\* Option(const char* v, OnChange f)
OptionString(v, f) ==
    [type |-> "string", min |-> 0, max |-> 0, comboValues |-> <<>>, on_change |-> f,
     defaultValue |-> v, currentValue |-> v]

\* Option(const char* v, const std::vector<std::string>& combo, OnChange f)
OptionCombo(v, combo, f) ==
    [type |-> "combo", min |-> 0, max |-> 0, comboValues |-> combo, on_change |-> f,
     defaultValue |-> v, currentValue |-> v]

\* Option(bool v, OnChange f)
OptionCheck(v, f) ==
    [type |-> "check", min |-> 0, max |-> 0, comboValues |-> <<>>, on_change |-> f,
     defaultValue |-> IF v THEN "true" ELSE "false",
     currentValue |-> IF v THEN "true" ELSE "false"]

\* Option(OnChange f): the strings are default-constructed, that is empty.
OptionButton(f) ==
    [type |-> "button", min |-> 0, max |-> 0, comboValues |-> <<>>, on_change |-> f,
     defaultValue |-> "", currentValue |-> ""]

\* Option(double v, int minv, int maxv, OnChange f)
OptionSpin(v, minv, maxv, f) ==
    [type |-> "spin", min |-> minv, max |-> maxv, comboValues |-> <<>>, on_change |-> f,
     defaultValue |-> to_string(v), currentValue |-> to_string(v)]

\* The value of a map entry: the members of o, and idx.
WithIdx(o, n) ==
    [type |-> o.type, min |-> o.min, max |-> o.max, comboValues |-> o.comboValues,
     on_change |-> o.on_change, defaultValue |-> o.defaultValue,
     currentValue |-> o.currentValue, idx |-> n]

\* std::find(comboValues.begin(), comboValues.end(), v) != comboValues.end()
InCombo(o, v) == \E k \in 1..Len(o.comboValues) : o.comboValues[k] = v

\* An operator== that compares the text exactly.
OptionEquals_Exact(o, s) == o.currentValue = s

\* Option::operator==(const char* s), its assert aside.
OptionEquals(o, s) ==
    /\ ~CaseInsensitiveLess(o.currentValue, s)
    /\ ~CaseInsensitiveLess(s, o.currentValue)

(***************************************************************************)
(* OptionsMap: std::map<std::string, Option, CaseInsensitiveLess>.         *)
(***************************************************************************)
RECURSIVE Bisect(_, _, _, _)
\* The first position in lo..hi whose key is not less than key, hi itself when
\* there is none before it: the descent of the map's search tree.
Bisect(m, key, lo, hi) ==
    IF lo >= hi THEN lo
    ELSE LET mid == (lo + hi) \div 2
         IN  IF CaseInsensitiveLess(m[mid].first, key) THEN Bisect(m, key, mid + 1, hi)
             ELSE Bisect(m, key, lo, mid)

\* std::map::lower_bound: the first position whose key is not less than key,
\* Len(m) + 1 when there is none.
LowerBound(m, key) == Bisect(m, key, 1, Len(m) + 1)

\* std::map::find: the position of the equivalent key, 0 for end().
Find(m, key) ==
    LET lb == LowerBound(m, key)
    IN  IF lb <= Len(m) /\ ~CaseInsensitiveLess(key, m[lb].first) THEN lb ELSE 0

\* std::map::operator[]: the map itself when an equivalent key is present;
\* otherwise the map with <key, Option()> inserted at its sorted place.
\* Option() is Option(OnChange = nullptr), and leaves idx uninitialized:
\* junk is the value the memory happens to hold.
Subscript(m, key, junk) ==
    IF Find(m, key) # 0 THEN m
    ELSE LET lb == LowerBound(m, key)
         IN  SubSeq(m, 1, lb - 1)
               \o <<[first |-> key, second |-> WithIdx(OptionButton("nullptr"), junk)]>>
               \o SubSeq(m, lb, Len(m))

(***************************************************************************)
(* The 'on change' hooks.  What a hook does to the engine is outside this  *)
(* file; a call is recorded with the value the hook is handed.             *)
(***************************************************************************)
Hooks == {"on_clear_hash", "on_hash_size", "on_logger", "on_threads", "on_tb_path",
          "on_piece_value", "on_variant"}

\* The accessor a hook applies to its argument asserts the option's type:
\* operator double() for TT.resize(o) and Threads.set(o), operator
\* std::string() for start_logger(o), Tablebases::init(o) and (std::string)o.
HookAssertHolds(h, o, xboard) ==
    CASE h \in {"on_hash_size", "on_threads"} -> o.type \in {"check", "spin"}
      [] h \in {"on_logger", "on_tb_path"}    -> o.type \in {"string", "combo"}
      [] h = "on_variant" /\ ~xboard          -> o.type \in {"string", "combo"}
      [] OTHER                                -> TRUE

\* The text on_variant sends; XBoard::StartFEN is a constant of xboard.h.
StartFEN == "<StartFEN>"

on_variant_lines(o, xboard) ==
    IF xboard
    THEN << "setup (PNBRQ.E....C.AF.MH.SU........D............LKpnbrq.e....c.af.mh.su........d............lk) 8x10+0_seirawan " \o StartFEN,
            "piece L& NB2", "piece C& llNrrNDK", "piece E& KDA", "piece U& CN",
            "piece S& B2DN", "piece D& QN", "piece F& B3DfNbN", "piece M& NR",
            "piece A& NB", "piece H& DHAG", "piece K& KisO2" >>
    ELSE << "info string variant " \o o.currentValue
              \o " files 8 ranks 10 pocket 0 template seirawan startpos " \o StartFEN >>

\* A probe that reads the default value of "Protocol", not its current value.
ProtocolProbe_Default(m, junk) ==
    LET m1 == Subscript(m, "Protocol", junk)
        o  == m1[Find(m1, "Protocol")].second
    IN  [map |-> m1, asserted |-> o.type = "combo",
         xboard |-> /\ ~CaseInsensitiveLess(o.defaultValue, "xboard")
                    /\ ~CaseInsensitiveLess("xboard", o.defaultValue)]

\* Options["Protocol"] == "xboard": the map after operator[] (which inserts a
\* missing key), whether operator=='s assert(type == "combo") holds, and the
\* comparison's result.
ProtocolProbe(m, junk) ==
    LET m1 == Subscript(m, "Protocol", junk)
        o  == m1[Find(m1, "Protocol")].second
    IN  [map |-> m1, asserted |-> o.type = "combo", xboard |-> OptionEquals(o, "xboard")]

(***************************************************************************)
(* operator<<(std::ostream&, const OptionsMap&): the rendered lines.       *)
(***************************************************************************)
RECURSIVE VarList(_, _)
\* for (string value : o.comboValues) os << " var " << value;   from position k
VarList(o, k) ==
    IF k > Len(o.comboValues) THEN ""
    ELSE " var " \o o.comboValues[k] \o VarList(o, k + 1)

RECURSIVE SlashList(_, _)
\* for (string value : o.comboValues) if (value != o.defaultValue) os << " /// " << value;
SlashList(o, k) ==
    IF k > Len(o.comboValues) THEN ""
    ELSE (IF o.comboValues[k] # o.defaultValue THEN " /// " \o o.comboValues[k] ELSE "")
           \o SlashList(o, k + 1)

\* A UCI line that shows the current value where the default belongs.
UciLine_Current(first, o, cv) ==
    "\noption name " \o first \o " type " \o o.type
      \o (IF o.type \in {"string", "check", "combo"} THEN " default " \o o.currentValue ELSE "")
      \o (IF o.type = "combo" THEN VarList(o, 1) ELSE "")
      \o (IF o.type = "spin"
          THEN " default " \o StreamInt(FloatToInt(stof(o.currentValue), cv))
                 \o " min " \o StreamInt(o.min) \o " max " \o StreamInt(o.max)
          ELSE "")

\* One entry in the UCI grammar.
UciLine(first, o, cv) ==
    "\noption name " \o first \o " type " \o o.type
      \o (IF o.type \in {"string", "check", "combo"} THEN " default " \o o.defaultValue ELSE "")
      \o (IF o.type = "combo" THEN VarList(o, 1) ELSE "")
      \o (IF o.type = "spin"
          THEN " default " \o StreamInt(FloatToInt(stof(o.defaultValue), cv))
                 \o " min " \o StreamInt(o.min) \o " max " \o StreamInt(o.max)
          ELSE "")

\* One entry in the xboard grammar.
XboardLine(first, o, cv) ==
    "\nfeature option=\"" \o first \o " -" \o o.type
      \o (IF o.type \in {"string", "combo"} THEN " " \o o.defaultValue
          ELSE IF o.type = "check" THEN " " \o (IF o.defaultValue = "true" THEN "1" ELSE "0")
          ELSE "")
      \o (IF o.type = "combo" THEN SlashList(o, 1) ELSE "")
      \o (IF o.type = "spin"
          THEN " " \o StreamInt(FloatToInt(stof(o.defaultValue), cv))
                 \o " " \o StreamInt(o.min) \o " " \o StreamInt(o.max)
          ELSE "")
      \o "\""

\* The inner loop: the first entry, in map order, with it.second.idx == idx
\* and it.first != "Protocol" (an exact comparison); 0 when there is none.
FirstWithIdx(m, idx) ==
    LET hits == {i \in 1..Len(m) : m[i].second.idx = idx /\ m[i].first # "Protocol"}
    IN  IF hits = {} THEN 0 ELSE CHOOSE i \in hits : \A j \in hits : i <= j

\* A rendering that walks the map in its own (alphabetical) order.
Render_MapOrder(m, xboard, cv) ==
    LET Shown(e) == e.first # "Protocol"
        visited == SelectSeq(m, Shown)
    IN  [k \in 1..Len(visited) |->
            IF xboard THEN XboardLine(visited[k].first, visited[k].second, cv)
            ELSE UciLine(visited[k].first, visited[k].second, cv)]

\* The outer loop, for (size_t idx = 0; idx < om.size(); ++idx): the entries
\* the inner loop stops at, in the order of idx, each rendered as one line.
Render(m, xboard, cv) ==
    LET stop == [k \in 1..Len(m) |-> FirstWithIdx(m, k - 1)]
        Found(i) == i # 0
        visited == SelectSeq(stop, Found)
    IN  [k \in 1..Len(visited) |->
            IF xboard THEN XboardLine(m[visited[k]].first, m[visited[k]].second, cv)
            ELSE UciLine(m[visited[k]].first, m[visited[k]].second, cv)]

(***************************************************************************)
(* init(): the declarations, in program order.                             *)
(***************************************************************************)
\* constexpr int MaxHashMB = Is64Bit ? 131072 : 2048, for a 64-bit build.
MaxHashMB == 131072

InitDecls ==
    <<[name |-> "Protocol", o |-> OptionCombo("uci", <<"uci", "xboard">>, "nullptr")],
       [name |-> "Debug Log File", o |-> OptionString("", "on_logger")],
       [name |-> "Contempt", o |-> OptionSpin(21, -100, 100, "nullptr")],
       [name |-> "Analysis Contempt", o |-> OptionCombo("Both", <<"Both", "Off", "White", "Black">>, "nullptr")],
       [name |-> "Threads", o |-> OptionSpin(1, 1, 512, "on_threads")],
       [name |-> "Hash", o |-> OptionSpin(16, 1, MaxHashMB, "on_hash_size")],
       [name |-> "Clear Hash", o |-> OptionButton("on_clear_hash")],
       [name |-> "Ponder", o |-> OptionCheck(FALSE, "nullptr")],
       [name |-> "MultiPV", o |-> OptionSpin(1, 1, 500, "nullptr")],
       [name |-> "Skill Level", o |-> OptionSpin(20, 0, 20, "nullptr")],
       [name |-> "Move Overhead", o |-> OptionSpin(30, 0, 5000, "nullptr")],
       [name |-> "Minimum Thinking Time", o |-> OptionSpin(20, 0, 5000, "nullptr")],
       [name |-> "Slow Mover", o |-> OptionSpin(84, 10, 1000, "nullptr")],
       [name |-> "nodestime", o |-> OptionSpin(0, 0, 10000, "nullptr")],
       [name |-> "UCI_Variant", o |-> OptionCombo("musketeer", <<"musketeer">>, "on_variant")],
       [name |-> "UCI_Chess960", o |-> OptionCheck(FALSE, "nullptr")],
       [name |-> "UCI_AnalyseMode", o |-> OptionCheck(FALSE, "nullptr")],
       [name |-> "SyzygyPath", o |-> OptionString("<empty>", "on_tb_path")],
       [name |-> "SyzygyProbeDepth", o |-> OptionSpin(1, 1, 100, "nullptr")],
       [name |-> "Syzygy50MoveRule", o |-> OptionCheck(TRUE, "nullptr")],
       [name |-> "SyzygyProbeLimit", o |-> OptionSpin(6, 0, 6, "nullptr")],
       [name |-> "CannonValueMg", o |-> OptionSpin(1710, 710, 2710, "on_piece_value")],
       [name |-> "CannonValueEg", o |-> OptionSpin(2239, 1239, 3239, "on_piece_value")],
       [name |-> "LeopardValueMg", o |-> OptionSpin(1648, 648, 2648, "on_piece_value")],
       [name |-> "LeopardValueEg", o |-> OptionSpin(2014, 1014, 3014, "on_piece_value")],
       [name |-> "ArchbishopValueMg", o |-> OptionSpin(2036, 1036, 3036, "on_piece_value")],
       [name |-> "ArchbishopValueEg", o |-> OptionSpin(2202, 1202, 3202, "on_piece_value")],
       [name |-> "ChancellorValueMg", o |-> OptionSpin(2251, 1251, 3251, "on_piece_value")],
       [name |-> "ChancellorValueEg", o |-> OptionSpin(2344, 1344, 3344, "on_piece_value")],
       [name |-> "SpiderValueMg", o |-> OptionSpin(2321, 1321, 3321, "on_piece_value")],
       [name |-> "SpiderValueEg", o |-> OptionSpin(2718, 1718, 3718, "on_piece_value")],
       [name |-> "DragonValueMg", o |-> OptionSpin(3280, 2280, 4280, "on_piece_value")],
       [name |-> "DragonValueEg", o |-> OptionSpin(2769, 1769, 3769, "on_piece_value")],
       [name |-> "UnicornValueMg", o |-> OptionSpin(1584, 584, 2584, "on_piece_value")],
       [name |-> "UnicornValueEg", o |-> OptionSpin(1772, 772, 2772, "on_piece_value")],
       [name |-> "HawkValueMg", o |-> OptionSpin(1537, 537, 2537, "on_piece_value")],
       [name |-> "HawkValueEg", o |-> OptionSpin(1561, 561, 2561, "on_piece_value")],
       [name |-> "ElephantValueMg", o |-> OptionSpin(1770, 770, 2770, "on_piece_value")],
       [name |-> "ElephantValueEg", o |-> OptionSpin(2000, 1000, 3000, "on_piece_value")],
       [name |-> "FortressValueMg", o |-> OptionSpin(1956, 956, 2956, "on_piece_value")],
       [name |-> "FortressValueEg", o |-> OptionSpin(2100, 1100, 3100, "on_piece_value")] >>

(***************************************************************************)
(* Operations on the state.                                                *)
(***************************************************************************)
\* o[name] << option: std::map::operator[], then Option::operator<<, which
\* copies the option into the entry and gives it idx n (= insert_order++).
\* The idx of a freshly inserted entry is overwritten at once.
DeclareInto(m, name, o, n) ==
    LET m1 == Subscript(m, name, 0)
    IN  [m1 EXCEPT ![Find(m1, name)].second = WithIdx(o, n)]

\* stof(v) < min || stof(v) > max
OutOfBounds(f, min, max) == FloatLess(f, min) \/ FloatGreater(f, max)

\* A test that refuses the empty value for a button too.
Rejected_EmptyAlways(o, v) ==
    \/ v = ""
    \/ (o.type = "check" /\ v # "true" /\ v # "false")
    \/ (o.type = "combo" /\ ~InCombo(o, v))
    \/ (o.type = "spin" /\ OutOfBounds(stof(v), o.min, o.max))

\* The test at the head of Option::operator=(const string& v): TRUE when v is
\* refused.  Evaluated only when stof(v) does not throw.
Rejected(o, v) ==
    \/ (o.type # "button" /\ v = "")
    \/ (o.type = "check" /\ v # "true" /\ v # "false")
    \/ (o.type = "combo" /\ ~InCombo(o, v))
    \/ (o.type = "spin" /\ OutOfBounds(stof(v), o.min, o.max))

\* stof(v) is reached for a spin option and a non-empty v (the disjuncts are
\* evaluated left to right), and throws std::invalid_argument on text that
\* holds no number and std::out_of_range on a number no float holds; nothing
\* catches either.
Throws(o, v) ==
    o.type = "spin" /\ v # "" /\ stof(v).kind \in {"invalid_argument", "out_of_range"}

\* The option after an accepted assign: if (type != "button") currentValue = v.
Stored(o, v) == IF o.type # "button" THEN [o EXCEPT !.currentValue = v] ELSE o

\* A hook that is handed the option as it was before the assignment.
HookArgument_Before(o, v) == o

\* on_change(*this): the hook is handed the option as the assignment left it.
HookArgument(o, v) == Stored(o, v)

\* Option::operator=(const string& v) on the entry at position i of m.
\* nd: assert() is compiled out; junk: see Subscript.
\* Gives the map, the fault, the hook calls made, the lines a hook wrote and
\* whether v passed the test.
AssignResult(m, i, v, junk, nd) ==
    LET o  == m[i].second
        o2 == Stored(o, v)
        m2 == [m EXCEPT ![i].second = o2]
        h  == o.on_change
        call == <<[hook |-> h, seen |-> HookArgument(o, v).currentValue]>>
        probe == ProtocolProbe(m2, junk)
    IN  IF Throws(o, v)
        THEN [map |-> m, fault |-> stof(v).kind, calls |-> <<>>, lines |-> <<>>, accepted |-> FALSE]
        ELSE IF Rejected(o, v)
        THEN [map |-> m, fault |-> "none", calls |-> <<>>, lines |-> <<>>, accepted |-> FALSE]
        ELSE IF h = "nullptr"
        THEN [map |-> m2, fault |-> "none", calls |-> <<>>, lines |-> <<>>, accepted |-> TRUE]
        ELSE IF h = "on_variant"
        THEN IF (~probe.asserted \/ ~HookAssertHolds(h, o2, probe.xboard)) /\ ~nd
             THEN [map |-> probe.map, fault |-> "assert", calls |-> call, lines |-> <<>>, accepted |-> TRUE]
             ELSE [map |-> probe.map, fault |-> "none", calls |-> call,
                   lines |-> on_variant_lines(o2, probe.xboard), accepted |-> TRUE]
        ELSE IF ~HookAssertHolds(h, o2, FALSE) /\ ~nd
        THEN [map |-> m2, fault |-> "assert", calls |-> call, lines |-> <<>>, accepted |-> TRUE]
        ELSE [map |-> m2, fault |-> "none", calls |-> call, lines |-> <<>>, accepted |-> TRUE]

\* The shape of the history record.
LastOf(op, name, key, arg, accepted, result, existed, before, idxBefore) ==
    [op |-> op, name |-> name, key |-> key, arg |-> arg, accepted |-> accepted,
     result |-> result, existed |-> existed, before |-> before, idxBefore |-> idxBefore,
     ncalls |-> Len(calls)]

\* The values the uninitialized idx of an Option() inserted for "Protocol" is
\* given here: one that an entry holds or will hold, and one that none does.
\* No insertion happens, and the value is not used, when the key is present.
JunkIdx == IF Find(Options, "Protocol") # 0 THEN {0} ELSE {0, insert_order + 1}

\* Whether running hook h looks "Protocol" up in the map.
ReadsProtocol(h) == h = "on_variant"

Init ==
    /\ Options = <<>>
    /\ insert_order = 0
    /\ calls = <<>>
    /\ out = <<>>
    /\ fault = "none"
    /\ pc = "start"
    /\ decls = <<>>
    /\ last = [op |-> "none", name |-> "", key |-> "", arg |-> "", accepted |-> FALSE,
               result |-> FALSE, existed |-> FALSE, before |-> "", idxBefore |-> 0,
               ncalls |-> 0]
    /\ nAssign = 0
    /\ nDeclare = 0

\* init(OptionsMap& o) on the global map, one statement a step: the next
\* declaration of the list, the session starting after the last.  init() runs
\* once, on the empty map, so insert_order counts the statements done.
init ==
    /\ pc = "start" /\ fault = "none"
    /\ insert_order < Len(InitDecls)
    /\ LET d == InitDecls[insert_order + 1]
       IN  /\ Options' = DeclareInto(Options, d.name, d.o, insert_order)
           /\ decls' = Append(decls, d.name)
           /\ last' = LastOf("init", d.name, d.name, "", FALSE, FALSE, FALSE, "", 0)
    /\ insert_order' = insert_order + 1
    /\ pc' = IF insert_order + 1 = Len(InitDecls) THEN "session" ELSE "start"
    /\ out' = <<>>
    /\ UNCHANGED <<calls, fault, nAssign, nDeclare>>

\* Options[name] << o, one declaration made during start-up.
Declare(name, o) ==
    /\ pc = "start" /\ fault = "none" /\ nDeclare < MaxDeclares
    /\ LET i == Find(Options, name)
           m == DeclareInto(Options, name, o, insert_order)
       IN  /\ Options' = m
           /\ last' = LastOf("declare", name, m[Find(m, name)].first, "", FALSE, FALSE, i # 0,
                             IF i # 0 THEN Options[i].second.currentValue ELSE "",
                             IF i # 0 THEN Options[i].second.idx ELSE 0)
    /\ insert_order' = insert_order + 1
    /\ decls' = Append(decls, name)
    /\ nDeclare' = nDeclare + 1
    /\ out' = <<>>
    /\ UNCHANGED <<calls, fault, pc, nAssign>>

\* Whether assert() is compiled out (NDEBUG) is a property of the build, which
\* this file does not fix: an assert that holds passes in every build, one
\* that fails is taken both ways.
Builds(assertHolds) == IF assertHolds THEN {TRUE} ELSE {TRUE, FALSE}

\* Whether assigning v to o runs a hook that looks "Protocol" up.
Runs(o, v) == ~Throws(o, v) /\ ~Rejected(o, v) /\ ReadsProtocol(o.on_change)

\* The step of an assignment whose outcome is release with assert() compiled
\* out and debug with it compiled in: the two differ only when an assert of
\* a hook fails.
Commit(release, debug, name, key, v, o) ==
    \E nd \in Builds(release = debug) :
        LET r == IF nd THEN release ELSE debug
        IN  /\ Options' = r.map
            /\ fault' = r.fault
            /\ calls' = calls \o r.calls
            /\ out' = r.lines
            /\ last' = LastOf("assign", name, key, v, r.accepted, FALSE, TRUE,
                              o.currentValue, o.idx)

\* Options[name] = v, where i = Find(Options, name) is the position at which
\* the map holds name (0: the caller found no such option and assigns nothing).
Assign(i, name, v) ==
    /\ fault = "none" /\ nAssign < MaxAssigns
    /\ i # 0
    /\ \E junk \in IF Runs(Options[i].second, v) THEN JunkIdx ELSE {0} :
            Commit(AssignResult(Options, i, v, junk, TRUE),
                   AssignResult(Options, i, v, junk, FALSE),
                   name, Options[i].first, v, Options[i].second)
    /\ nAssign' = nAssign + 1
    /\ pc' = "session"
    /\ UNCHANGED <<insert_order, decls, nDeclare>>

\* Options[name] == s, where i = Find(Options, name).
Compare(i, name, s) ==
    /\ fault = "none"
    /\ i # 0
    /\ LET o == Options[i].second
       IN  \E nd \in Builds(o.type = "combo") :
              IF o.type # "combo" /\ ~nd
              THEN /\ fault' = "assert"
                   /\ last' = LastOf("compare", name, Options[i].first, s, FALSE, FALSE, TRUE,
                                     o.currentValue, o.idx)
              ELSE /\ fault' = fault
                   /\ last' = LastOf("compare", name, Options[i].first, s, FALSE,
                                     OptionEquals(o, s), TRUE, o.currentValue, o.idx)
    /\ out' = <<>>
    /\ pc' = "session"
    /\ UNCHANGED <<Options, insert_order, calls, decls, nAssign, nDeclare>>

\* Options.find(name): the key found, if any.
Lookup(name) ==
    /\ fault = "none"
    /\ LET i == Find(Options, name)
       IN  last' = LastOf("lookup", name, IF i # 0 THEN Options[i].first ELSE "", "", FALSE,
                          i # 0, i # 0,
                          IF i # 0 THEN Options[i].second.currentValue ELSE "",
                          IF i # 0 THEN Options[i].second.idx ELSE 0)
    /\ out' = <<>>
    /\ pc' = "session"
    /\ UNCHANGED <<Options, insert_order, calls, fault, decls, nAssign, nDeclare>>

\* The builds that differ on the rendering of m: all of them when int cannot
\* hold the default of some spin, one otherwise.  A default is the text
\* std::to_string gives, six decimals after the point: one of 16 characters
\* or fewer is below 10^9.
ConversionsOf(m) ==
    IF \A i \in 1..Len(m) :
            m[i].second.type = "spin" =>
                \/ Len(m[i].second.defaultValue) <= 16
                \/ FitsInt(stof(m[i].second.defaultValue))
    THEN {"indefinite"} ELSE Conversions

\* os << Options
Serialize ==
    /\ fault = "none"
    /\ \E junk \in JunkIdx :
         LET probe == ProtocolProbe(Options, junk)
         IN  /\ Options' = probe.map
             /\ \E nd \in Builds(probe.asserted) :
                  IF ~probe.asserted /\ ~nd
                  THEN fault' = "assert" /\ out' = <<>>
                  ELSE /\ fault' = fault
                       /\ \E cv \in ConversionsOf(probe.map) :
                              out' = Render(probe.map, probe.xboard, cv)
    /\ last' = LastOf("serialize", "", "", "", FALSE, FALSE, FALSE, "", 0)
    /\ pc' = "session"
    /\ UNCHANGED <<insert_order, calls, decls, nAssign, nDeclare>>

(***************************************************************************)
(* Inputs.                                                                 *)
(***************************************************************************)
\* The names a session assigns to, some spelt in another case than declared.
SessionNames ==
    {"Protocol", "threads", "Contempt", "Ponder", "Analysis Contempt", "Clear Hash",
     "Debug Log File", "UCI_Variant"}

\* The values tried on an option: around the bounds of a spin and text that
\* holds no number; the allowed values of a combo and their lower-case
\* spelling; text of no kind.
ValuesOf(o) ==
    {""} \cup
    CASE o.type = "spin"   -> {StreamInt(o.min - 1), StreamInt(o.min), StreamInt(o.max),
                               StreamInt(o.max + 1), "4", "abc"}
      [] o.type = "check"  -> {"true", "false", "True"}
      [] o.type = "combo"  -> {o.comboValues[k] : k \in 1..Len(o.comboValues)}
                                \cup {LowerStr(o.comboValues[1])}
      [] o.type = "string" -> {"log.txt"}
      [] OTHER             -> {"now"}

ValuesAt(i) == IF i = 0 THEN {} ELSE ValuesOf(Options[i].second)

\* Numbers in the other notations strtof reads, <<name, value>>: not a
\* number, infinity, an exponent, hexadecimal digits, and numbers too large
\* and too small for a float.
SessionNumbers ==
    {<<"threads", "nan">>, <<"threads", "0x10">>, <<"threads", "1e3">>, <<"threads", "1e39">>,
     <<"Contempt", "inf">>, <<"Contempt", "1e-50">>}

\* The comparisons a session makes: <<name, literal>>.
SessionCompares ==
    {<<"Protocol", "XBoard">>, <<"Analysis Contempt", "both">>, <<"analysis contempt", "BOTH">>,
     <<"Threads", "1.000000">>}

(***************************************************************************)
(* The program: init(), then a session of assignments, comparisons and     *)
(* renderings.                                                             *)
(***************************************************************************)
Next ==
    \/ init
    \/ /\ pc = "session"
       /\ \E name \in SessionNames :
            LET i == Find(Options, name)
            IN  \E v \in ValuesAt(i) \cup {n[2] : n \in {m \in SessionNumbers : m[1] = name}} :
                    Assign(i, name, v)
    \/ /\ pc = "session"
       /\ \E c \in SessionCompares : Compare(Find(Options, c[1]), c[1], c[2])
    \/ /\ pc = "session"
       /\ Serialize

Spec == Init /\ [][Next]_vars

(***************************************************************************)
(* The registry on its own: any declarations at start-up (the same name    *)
(* twice, in any spelling, included), then assignments, lookups and        *)
(* renderings.                                                             *)
(***************************************************************************)
\* The declarations tried.  "Ponder" is given a hook here, which no check
\* option of init() has.
RegistryDecls ==
    { [name |-> "Protocol", o |-> OptionCombo("uci", <<"uci", "xboard">>, "nullptr")],
      [name |-> "Hash",     o |-> OptionSpin(16, 1, MaxHashMB, "on_hash_size")],
      [name |-> "HASH",     o |-> OptionSpin(64, 1, MaxHashMB, "on_hash_size")],
      [name |-> "Ponder",   o |-> OptionCheck(FALSE, "on_clear_hash")] }

\* The assignments tried: <<name, value>>.
RegistryAssigns ==
    {<<"ponder", "true">>, <<"PONDER", "false">>, <<"protocol", "xboard">>}

\* The names looked up.
RegistryLookups == {"HaSh", "Has"}

NextRegistry ==
    \/ \E d \in RegistryDecls : Declare(d.name, d.o)
    \/ \E a \in RegistryAssigns : Assign(Find(Options, a[1]), a[1], a[2])
    \/ \E name \in RegistryLookups : Lookup(name)
    \/ Serialize

SpecRegistry == Init /\ [][NextRegistry]_vars

(***************************************************************************)
(* Properties.                                                             *)
(***************************************************************************)
\* The position of the entry whose key is spelt exactly key, 0 when none is.
KeyPos(m, key) ==
    IF \E i \in 1..Len(m) : m[i].first = key
    THEN CHOOSE i \in 1..Len(m) : m[i].first = key
    ELSE 0

\* The option stored under the key spelt exactly key.
OptionAt(m, key) == m[KeyPos(m, key)].second

StartsWith(s, p) == Len(s) >= Len(p) /\ SubSeq(s, 1, Len(p)) = p

\* A step that is one assignment.
AssignStep == nAssign' = nAssign + 1

\* A step that is one declaration made by a caller.
DeclareStep == nDeclare' = nDeclare + 1

\* The validity predicate of an option's kind, on its current value.
ValidValue(o) ==
    CASE o.type = "spin"  -> LET f == stof(o.currentValue)
                             IN  /\ f.kind = "num"
                                 /\ ~FloatLess(f, o.min) /\ ~FloatGreater(f, o.max)
      [] o.type = "combo" -> \E k \in 1..Len(o.comboValues) : o.comboValues[k] = o.currentValue
      [] o.type = "check" -> o.currentValue \in {"true", "false"}
      [] OTHER            -> TRUE

\* C1: in every state reached from init() by assignments, the current value
\* of every option is valid for its kind: a spin's value parses to a number
\* in [min, max], a combo's value is one of its allowed values, a check's
\* value is "true" or "false"; the state right after declaration included.
C1_CurrentValueValid ==
    \A i \in 1..Len(Options) : ValidValue(Options[i].second)

\* "nan" was assigned to Threads: it is less than no bound and greater than
\* none, so it was stored and on_threads ran on it.
C1_Witness ==
    /\ last.op = "assign" /\ last.key = "Threads" /\ last.arg = "nan" /\ last.accepted
    /\ fault = "none"
    /\ OptionAt(Options, "Threads").currentValue = "nan"
    /\ calls = <<[hook |-> "on_threads", seen |-> "nan"]>>

\* Whether text parses as a number: stof returns.
Parses(v) == stof(v).kind \in {"num", "inf", "nan"}

\* Texts of numbers above the max of every spin: max is an int.
TooLarge == {"1e39"}

\* A value that fails validation, case by case.  The number a text denotes is
\* its float where it has one.
InvalidFor(o, v) ==
    \/ (o.type # "button" /\ v = "")
    \/ (o.type = "check" /\ v \notin {"true", "false"})
    \/ (o.type = "combo" /\ \A k \in 1..Len(o.comboValues) : o.comboValues[k] # v)
    \/ (o.type = "spin" /\ Parses(v)
          /\ (FloatLess(stof(v), o.min) \/ FloatGreater(stof(v), o.max)))
    \/ (o.type = "spin" /\ v \in {StreamInt(o.min - 1), StreamInt(o.max + 1)} \cup TooLarge)

\* C2: an assignment of a value that fails validation (empty for a non-button,
\* not "true"/"false" for a check, not an exact member for a combo, a number
\* below min or above max for a spin) changes no value and runs no hook; the
\* bounds of a spin are inclusive: min and max are stored, min-1 and max+1
\* are not.
C2_InvalidAssignIsNoOp ==
    [][AssignStep =>
        LET o == OptionAt(Options, last'.key)
            v == last'.arg
        IN  /\ InvalidFor(o, v) =>
                  Options' = Options /\ calls' = calls /\ fault' = "none" /\ ~last'.accepted
            /\ (o.type = "spin" /\ v \in {StreamInt(o.min), StreamInt(o.max)}) =>
                  /\ last'.accepted
                  /\ OptionAt(Options', last'.key).currentValue = v]_vars

\* "1e39", a number above max, was assigned to Threads: stof threw
\* std::out_of_range, which nothing catches; no value was stored and no
\* hook ran.
C2_Witness ==
    /\ last.op = "assign" /\ last.key = "Threads" /\ last.arg = "1e39" /\ ~last.accepted
    /\ fault = "out_of_range"
    /\ OptionAt(Options, "Threads").currentValue = "1.000000"
    /\ calls = <<>>

\* C8: an assignment to a button, of any value, the empty one included, is
\* never refused: it runs the option's hook exactly once and stores nothing,
\* the button being the same before and after.
C8_ButtonAlwaysFires ==
    [][AssignStep =>
        LET o == OptionAt(Options, last'.key)
        IN  o.type = "button" =>
              /\ last'.accepted /\ fault' = "none"
              /\ Options' = Options
              /\ o.on_change # "nullptr" =>
                    calls' = Append(calls, [hook |-> o.on_change, seen |-> o.currentValue])]_vars

\* "Clear Hash" was pressed twice, once with the empty value: two hook calls
\* and still no value.
C8_Witness ==
    /\ last.op = "assign" /\ last.key = "Clear Hash" /\ last.arg = "" /\ last.accepted
    /\ Len(calls) = 2
    /\ calls[1].hook = "on_clear_hash" /\ calls[2].hook = "on_clear_hash"
    /\ OptionAt(Options, "Clear Hash").currentValue = ""

\* C9: assignment to a combo uses exact membership, so "both" is refused for
\* the allowed set {"Both","Off","White","Black"} (value kept, no hook),
\* while the comparison with a literal is true exactly when the literal and
\* the current value are equal after ASCII case folding ("both" and "BOTH"
\* equal "Both").
C9_ComboCaseAsymmetry ==
    /\ (last.op = "compare" /\ fault = "none") =>
          last.result = (LowerStr(last.arg) = LowerStr(OptionAt(Options, last.key).currentValue))
    /\ (last.op = "assign" /\ OptionAt(Options, last.key).type = "combo"
          /\ \A k \in 1..Len(OptionAt(Options, last.key).comboValues) :
                OptionAt(Options, last.key).comboValues[k] # last.arg) =>
          /\ ~last.accepted
          /\ OptionAt(Options, last.key).currentValue = last.before
          /\ Len(calls) = last.ncalls

\* "BOTH" compares equal to the value "Both" of "Analysis Contempt", looked
\* up as "analysis contempt".
C9_Witness ==
    /\ last.op = "compare" /\ last.name = "analysis contempt" /\ last.arg = "BOTH"
    /\ last.result /\ fault = "none"
    /\ OptionAt(Options, "Analysis Contempt").currentValue = "Both"

\* Whether the current value of "Protocol" is "xboard" after case folding.
ProtocolIsXboard == LowerStr(OptionAt(Options, "Protocol").currentValue) = "xboard"

RECURSIVE Joined(_, _, _, _)
\* sep followed by vs[k], for every k from k on with vs[k] # skip.
Joined(vs, sep, skip, k) ==
    IF k > Len(vs) THEN ""
    ELSE (IF vs[k] # skip THEN sep \o vs[k] ELSE "") \o Joined(vs, sep, skip, k + 1)

\* The line of a combo in the primary grammar: " var <v>" for every value.
PrimaryCombo(name, o) ==
    "\noption name " \o name \o " type combo default " \o o.defaultValue
      \o Joined(o.comboValues, " var ", "\n", 1)

\* The line of a combo in the alternate grammar: the default, then " /// <v>"
\* for every value other than the default.
AlternateCombo(name, o) ==
    "\nfeature option=\"" \o name \o " -combo " \o o.defaultValue
      \o Joined(o.comboValues, " /// ", o.defaultValue, 1) \o "\""

\* C7: the grammar of the rendering follows the current value of "Protocol":
\* the alternate grammar (feature option="<Name> -<kind>...") exactly when
\* that value is "xboard" after case folding, the primary one (option name
\* <Name> type <kind>...) otherwise; a combo other than "Protocol" lists its
\* default and " /// <v>" for the other values in the alternate grammar, and
\* " var <v>" for every value in the primary one.
C7_GrammarFollowsProtocol ==
    (last.op = "serialize" /\ fault = "none") =>
        /\ \A k \in 1..Len(out) :
              StartsWith(out[k], IF ProtocolIsXboard THEN "\nfeature option=\""
                                 ELSE "\noption name ")
        /\ \A i \in 1..Len(Options) :
              Options[i].first # "Protocol" =>
                \E k \in 1..Len(out) :
                    /\ StartsWith(out[k],
                          IF ProtocolIsXboard
                          THEN "\nfeature option=\"" \o Options[i].first \o " -" \o Options[i].second.type
                          ELSE "\noption name " \o Options[i].first \o " type " \o Options[i].second.type)
                    /\ Options[i].second.type = "combo" =>
                          out[k] = IF ProtocolIsXboard
                                   THEN AlternateCombo(Options[i].first, Options[i].second)
                                   ELSE PrimaryCombo(Options[i].first, Options[i].second)

\* A rendering made after "Protocol" was set to "xboard".
C7_Witness ==
    /\ last.op = "serialize" /\ fault = "none"
    /\ OptionAt(Options, "Protocol").currentValue = "xboard"
    /\ \E k \in 1..Len(out) :
          out[k] = "\nfeature option=\"Analysis Contempt -combo Both /// Off /// White /// Black\""

\* Everything of an option but its current value.
Fixed(o) == [o EXCEPT !.currentValue = ""]

\* The text init()'s declarations render to while nothing but defaults is
\* shown: one line a declaration other than "Protocol", in program order.
DefaultText(xboard) ==
    [k \in 1..(Len(InitDecls) - 1) |->
        IF xboard THEN XboardLine(InitDecls[k + 1].name, InitDecls[k + 1].o, "indefinite")
        ELSE UciLine(InitDecls[k + 1].name, InitDecls[k + 1].o, "indefinite")]

\* C10: an assignment, accepted or refused, changes at most the current value
\* of its target: the entries of the registry and every option's kind,
\* default, bounds, allowed values, hook and idx stay as they are, and so does
\* every other option's value; the rendering shows defaults, so for a given
\* value of "Protocol" the text is the same after any assignments to other
\* options: the text of the declarations themselves.
C10_AssignFrame ==
    /\ [][AssignStep =>
            /\ Len(Options') = Len(Options)
            /\ \A i \in 1..Len(Options) :
                  /\ Options'[i].first = Options[i].first
                  /\ Fixed(Options'[i].second) = Fixed(Options[i].second)
                  /\ Options[i].first # last'.key =>
                        Options'[i].second.currentValue = Options[i].second.currentValue]_vars
    /\ []((last.op = "serialize" /\ fault = "none") => out = DefaultText(ProtocolIsXboard))

\* A rendering in the primary grammar shows default 1 for Threads, which
\* holds 4, and default 21 for Contempt, which holds -100.
C10_Witness ==
    /\ last.op = "serialize" /\ fault = "none"
    /\ OptionAt(Options, "Threads").currentValue = "4"
    /\ OptionAt(Options, "Contempt").currentValue = "-100"
    /\ OptionAt(Options, "Protocol").currentValue = "uci"
    /\ out[4] = "\noption name Threads type spin default 1 min 1 max 512"
    /\ out[2] = "\noption name Contempt type spin default 21 min -100 max 100"

\* C3: an assignment that passes validation on an option that is no button
\* first stores the new value and then, when the option has a hook, runs it
\* exactly once, on the option as stored (its value is the new one); so
\* "true" and then "false" on a check with a hook leave "false" and two hook
\* calls, and an accepted value equal to the one held runs the hook too.
C3_StoreThenHook ==
    [][AssignStep =>
        LET o == OptionAt(Options, last'.key)
            v == last'.arg
        IN  (o.type # "button" /\ ~InvalidFor(o, v) /\ (o.type = "spin" => Parses(v))) =>
              /\ last'.accepted
              /\ OptionAt(Options', last'.key).currentValue = v
              /\ calls' = IF o.on_change # "nullptr"
                          THEN Append(calls, [hook |-> o.on_change, seen |-> v])
                          ELSE calls]_vars

\* "true" and then "false" were assigned to the check "Ponder", declared with
\* a hook: the hook ran twice, each time on the value just stored.
C3_Witness ==
    /\ last.op = "assign" /\ last.key = "Ponder" /\ last.arg = "false" /\ last.before = "true"
    /\ OptionAt(Options, "Ponder").currentValue = "false"
    /\ calls = <<[hook |-> "on_clear_hash", seen |-> "true"],
                 [hook |-> "on_clear_hash", seen |-> "false"]>>

\* No two declared names are equal after case folding.
DistinctNames(ds) ==
    \A a, b \in 1..Len(ds) : a # b => LowerStr(ds[a]) # LowerStr(ds[b])

NotProtocol(name) == name # "Protocol"

\* C4: when the declared names are pairwise distinct after case folding, the
\* names the rendering emits, in either grammar, are the declared names
\* without "Protocol", each once and in the order of declaration, whatever
\* their alphabetical order.
C4_DeclarationOrder ==
    (last.op = "serialize" /\ fault = "none" /\ DistinctNames(decls)) =>
        LET expected == SelectSeq(decls, NotProtocol)
        IN  /\ Len(out) = Len(expected)
            /\ \A k \in 1..Len(expected) :
                  \/ StartsWith(out[k], "\noption name " \o expected[k] \o " type ")
                  \/ StartsWith(out[k], "\nfeature option=\"" \o expected[k] \o " -")

\* Declared in reverse alphabetical order, "Ponder" is rendered before "Hash".
C4_Witness ==
    /\ last.op = "serialize" /\ fault = "none"
    /\ decls = <<"Protocol", "Ponder", "Hash">>
    /\ Len(out) = 2
    /\ StartsWith(out[1], "\noption name Ponder ")
    /\ StartsWith(out[2], "\noption name Hash ")

\* The positions of the entries whose key equals name after case folding.
SameName(m, name) == {i \in 1..Len(m) : LowerStr(m[i].first) = LowerStr(name)}

\* C5: names are identified up to ASCII case: no two entries have keys that
\* differ only by case, every declared name has its entry, and a lookup of a
\* name in any spelling finds the one entry whose key equals it after case
\* folding, or nothing when there is none.
C5_CaseInsensitiveIdentity ==
    /\ \A i, j \in 1..Len(Options) :
          i # j => LowerStr(Options[i].first) # LowerStr(Options[j].first)
    /\ \A k \in 1..Len(decls) : SameName(Options, decls[k]) # {}
    /\ last.op = "lookup" =>
          /\ last.result <=> SameName(Options, last.name) # {}
          /\ last.result => SameName(Options, last.name) = {KeyPos(Options, last.key)}

\* "HaSh" is looked up and found under the key "Hash".
C5_Witness ==
    /\ last.op = "lookup" /\ last.name = "HaSh" /\ last.result /\ last.key = "Hash"
    /\ Len(Options) = 3

\* C6: a declaration of a name that equals a declared one after
\* case folding ("Hash", then "HASH") is a fatal fault, never accepted in
\* silence, and the idx an entry got at its first declaration never changes.
C6_CollisionIsFault ==
    (last.op = "declare" /\ last.existed) =>
        /\ fault # "none"
        /\ OptionAt(Options, last.key).idx = last.idxBefore

\* "HASH" was declared after "Hash": no fault, one entry, still keyed "Hash",
\* holding the second declaration's default and idx.
C6_Witness ==
    /\ last.op = "declare" /\ last.existed /\ last.name = "HASH" /\ last.key = "Hash"
    /\ fault = "none"
    /\ Len(Options) = 1
    /\ last.idxBefore = 0
    /\ OptionAt(Options, "Hash").idx = 1
    /\ OptionAt(Options, "Hash").defaultValue = "64.000000"

=============================================================================
